---- MODULE Spec2Model ----
(***************************************************************************)
(* Model of pages/4_Model.py: the Streamlit page that collects 14 feature  *)
(* values, differences six of them against last-known values, loads a      *)
(* pickled regressor through st.cache_resource and shows its prediction.   *)
(*                                                                         *)
(* Numbers.  Cells of integer widgets are held in ones.  Cells of float    *)
(* widgets (those declared with min_value=0.0) are held in hundredths, the *)
(* default float step of st.number_input, so 13.89 is 1389 and 959 in the  *)
(* float column new_people_vaccinated_smoothed is 95900.  Subtraction and  *)
(* comparison with 0 are then exact integer operations.                    *)
(*                                                                         *)
(* A one-row DataFrame is a function from its column names to the value of *)
(* row 0.                                                                  *)
(***************************************************************************)
EXTENDS Integers, Sequences, FiniteSets, TLC

VARIABLES
    file,        \* what is at model_path on disk
    cache,       \* the st.cache_resource entry of load_model (process-wide)
    reads,       \* how many times the body of load_model has run
    loads,       \* how many times joblib.load has returned a model
    widgets,     \* per session: the current value of the 14 number inputs
    display,     \* per session: the elements below the form after the last run
    run,         \* per session: what the last run of main() did
    arg_given,   \* preprocess call: the values of main_dataframe when passed
    arg_frame,   \* preprocess call: the caller's main_dataframe object
    known_frame, \* preprocess call: dataframe_with_last_known_value
    ret_frame,   \* preprocess call: the returned frame
    called       \* preprocess call: whether the call has returned

vars == <<file, cache, reads, loads, widgets, display, run,
          arg_given, arg_frame, known_frame, ret_frame, called>>

---------------------------------------------------------------------------
(* Bounds *)

NumSessions == 2
MaxReads == 3

Sessions == 1..NumSessions

---------------------------------------------------------------------------
(* Frames *)

NoFrame == [c \in {} |-> 0]
None == "None"

\* main_dataframe[column] = value : sets the column, adding it when absent
Assign(df, column, value) ==
    [c \in (DOMAIN df) \cup {column} |-> IF c = column THEN value ELSE df[c]]

\* the keys of the dict input_df is built from
input_columns ==
    {"fullyVaccinated", "new_deaths_smoothed", "new_people_vaccinated_smoothed",
     "new_vaccinations_smoothed", "partiallyVaccinated", "stringency_index",
     "test24hours", "totalTests", "totalVaccinations", "vaccinated24hours",
     "rfh", "r3h", "month", "day_of_week"}

differenced_features ==
    [fullyVaccinated |-> 9327654,
     new_people_vaccinated_smoothed |-> 95900,
     partiallyVaccinated |-> 4663827,
     stringency_index |-> 1389,
     totalTests |-> 4166833,
     totalVaccinations |-> 9982068]

---------------------------------------------------------------------------
(* preprocess *)

common_columns(df, known) == (DOMAIN df) \cap (DOMAIN known)

\* line 27
subtract_column(df, known, column) ==
    Assign(df, column, df[column] - known[column])

\* lines 28-29 with the whole row overwritten
clamp_whole_frame(df, column) ==
    IF df[column] < 0 THEN [c \in DOMAIN df |-> 0] ELSE df

\* lines 28-29 with the negative difference kept
clamp_column_kept(df, column) == df

\* lines 28-29
clamp_column(df, column) ==
    IF df[column] < 0 THEN Assign(df, column, 0) ELSE df

\* the loop of lines 26-29 over the columns still to visit
RECURSIVE subtract_known(_, _, _)
subtract_known(df, known, columns) ==
    IF columns = {} THEN df
    ELSE LET column == CHOOSE c \in columns : TRUE
         IN subtract_known(clamp_column(subtract_column(df, known, column), column),
                           known, columns \ {column})

\* frame: main_dataframe as the caller sees it after the call (it is
\* assigned to in place); ret: the returned object, which is that same frame
preprocess(df, known) ==
    LET mutated == subtract_known(df, known, common_columns(df, known))
    IN [frame |-> mutated, ret |-> mutated]

---------------------------------------------------------------------------
(* Input Collector: the st.number_input widgets of main() *)

\* min_value of each widget, in the column's unit
min_value ==
    [c \in input_columns |->
        CASE c = "fullyVaccinated"     -> 9327654
          [] c = "partiallyVaccinated" -> 4663827
          [] c = "totalTests"          -> 4166833
          [] c = "totalVaccinations"   -> 9982068
          [] c = "month"               -> 1
          [] OTHER                     -> 0]

\* max_value of the widgets that declare one
max_value == [stringency_index |-> 10000, month |-> 12, day_of_week |-> 6]

\* a widget without bounds
number_input_unchecked(label, v) == TRUE

\* whether the widget accepts v: st.number_input keeps its value within
\* [min_value, max_value]
number_input(label, v) ==
    /\ v >= min_value[label]
    /\ label \in DOMAIN max_value => v <= max_value[label]

\* no value= is given, so each widget starts at its min_value
default_inputs == [c \in input_columns |-> min_value[c]]

\* input_df = pd.DataFrame({...}) over the widget values
input_df_of(w) == [c \in input_columns |-> w[c]]

\* what a user types into a widget: <<label, value>>
TypedValues ==
    {<<"fullyVaccinated", 9000000>>, <<"fullyVaccinated", 9327654>>,
     <<"fullyVaccinated", 9327700>>,
     <<"new_people_vaccinated_smoothed", 0>>,
     <<"new_people_vaccinated_smoothed", 100000>>,
     <<"stringency_index", 0>>, <<"stringency_index", 10100>>,
     <<"month", 0>>, <<"day_of_week", 7>>}

---------------------------------------------------------------------------
(* Model Loader *)

model_path == "model/xgb_model_total_imputed_cases.pkl"

\* what can be at model_path: nothing, bytes joblib cannot deserialize, a
\* regressor whose predict returns a scalar, a regressor whose predict raises
Artifacts == {"absent", "corrupt", "xgb_ok", "xgb_raises"}
Models == {"xgb_ok", "xgb_raises"}

\* elements a run leaves on the page; text is the f-string as its parts
st_error(text) == [kind |-> "error", text |-> text, frame |-> NoFrame]
st_success(text) == [kind |-> "success", text |-> text, frame |-> NoFrame]
st_write(text) == [kind |-> "write", text |-> text, frame |-> NoFrame]
st_write_frame(df) == [kind |-> "dataframe", text |-> <<>>, frame |-> df]
st_exception(text) == [kind |-> "exception", text |-> text, frame |-> NoFrame]

\* os.path.exists(model_path) when the disk holds f
os_path_exists(f) == f # "absent"

\* joblib.load(model_path) when the disk holds f: the model, or the
\* exception raised, str(e) as its parts
joblib_load(f) ==
    IF f = "absent"
    THEN [raised |-> TRUE, model |-> None,
          e |-> <<"[Errno 2] No such file or directory: ", model_path>>]
    ELSE IF f = "corrupt"
    THEN [raised |-> TRUE, model |-> None, e |-> <<"UnpicklingError">>]
    ELSE [raised |-> FALSE, model |-> f, e |-> <<>>]

\* the body of load_model: the model returned (or None), the elements it
\* writes, and whether it got as far as joblib.load.  The disk is read
\* twice: f37 is what it holds when line 37 tests the path, f42 what it
\* holds when line 42 opens the file
load_model_body(f37, f42) ==
    IF ~os_path_exists(f37)
    THEN [model |-> None, opened |-> FALSE,
          elems |-> <<st_error(<<" Model file not found at ", model_path,
                                 ". Please check the path and try again.">>)>>]
    ELSE LET r == joblib_load(f42)
         IN IF r.raised
            THEN [model |-> None, opened |-> TRUE,
                  elems |-> <<st_error(<<"An error occured while loading the model: ">>
                                       \o r.e)>>]
            ELSE [model |-> r.model, opened |-> TRUE, elems |-> <<>>]

EmptyCache == [stored |-> FALSE, value |-> None, elems |-> <<>>]

\* load_model with the decorator left out: the body runs on every call
load_model_uncached(c, f37, f42) ==
    LET r == load_model_body(f37, f42)
    IN [cache |-> c, model |-> r.model, elems |-> r.elems, ran |-> TRUE,
        opened |-> r.opened]

\* a cache that returns the stored value without replaying the elements
load_model_no_replay(c, f37, f42) ==
    IF c.stored
    THEN [cache |-> c, model |-> c.value, elems |-> <<>>, ran |-> FALSE,
          opened |-> FALSE]
    ELSE LET r == load_model_body(f37, f42)
         IN [cache |-> [stored |-> TRUE, value |-> r.model, elems |-> r.elems],
             model |-> r.model, elems |-> r.elems, ran |-> TRUE,
             opened |-> r.opened]

\* @st.cache_resource on a function without arguments: the first call that
\* returns stores the returned value (None included) together with the
\* elements the body wrote; every later call returns the stored value and
\* replays those elements without running the body
load_model(c, f37, f42) ==
    IF c.stored
    THEN [cache |-> c, model |-> c.value, elems |-> c.elems, ran |-> FALSE,
          opened |-> FALSE]
    ELSE LET r == load_model_body(f37, f42)
         IN [cache |-> [stored |-> TRUE, value |-> r.model, elems |-> r.elems],
             model |-> r.model, elems |-> r.elems, ran |-> TRUE,
             opened |-> r.opened]

---------------------------------------------------------------------------
(* Prediction Orchestrator *)

\* f"{v: .3f}" of a non-negative v held in thousandths, as its parts
format_3f(v) ==
    <<" ", ToString(v \div 1000), ".", ToString((v % 1000) \div 100),
      ToString((v % 100) \div 10), ToString(v % 10)>>

\* the regressor's predict on a one-row frame, in thousandths
predict(model, row) ==
    IF model = "xgb_ok" THEN [raised |-> FALSE, value |-> 123456]
    ELSE [raised |-> TRUE, value |-> 0]

\* lines 122-126 without the try/except
predict_and_show_uncaught(model, row) ==
    IF model = None
    THEN [elems |-> <<st_exception(<<"AttributeError">>)>>, invoked |-> FALSE]
    ELSE LET r == predict(model, row)
         IN IF r.raised
            THEN [elems |-> <<st_exception(<<"predict raised">>)>>, invoked |-> TRUE]
            ELSE [elems |-> <<st_success(<<"Predicted Total Imputed Cases: ">> \o format_3f(r.value))>>,
                  invoked |-> TRUE]

\* lines 122-126: model.predict(preprocessed_data) inside try/except
\* Exception; on None the attribute lookup raises before any call
predict_and_show(model, row) ==
    IF model = None
    THEN [elems |-> <<st_error(<<"An error occurred: ",
                                 "'NoneType' object has no attribute 'predict'">>)>>,
          invoked |-> FALSE]
    ELSE LET r == predict(model, row)
         IN IF r.raised
            THEN [elems |-> <<st_error(<<"An error occurred: ", "predict raised">>)>>,
                  invoked |-> TRUE]
            ELSE [elems |-> <<st_success(<<"Predicted Total Imputed Cases: ">> \o format_3f(r.value))>>,
                  invoked |-> TRUE]

IdleRun == [elems |-> <<>>, loaded |-> FALSE, ran |-> FALSE, model |-> None,
            opened |-> FALSE, attempted |-> FALSE, invoked |-> FALSE,
            row |-> NoFrame]

\* st.button("**Predict**") taken as always True
st_button_always(pressed) == TRUE

\* st.button("**Predict**"): True only in the run its click caused
st_button(pressed) == pressed

\* one run of main() in a session with widget values w; pressed says whether
\* the run was caused by a click on Predict; f37 and f42 are what the disk
\* holds at the two reads of load_model
main(w, pressed, c, f37, f42) ==
    LET p == preprocess(input_df_of(w), differenced_features)
        input_df == p.frame
        preprocessed_data == p.ret
    IN IF ~st_button(pressed)
       THEN [cache |-> c, out |-> IdleRun]
       ELSE LET lm == load_model(c, f37, f42)
                pr == predict_and_show(lm.model, preprocessed_data)
            IN [cache |-> lm.cache,
                out |-> [elems |-> lm.elems
                                   \o <<st_write(<<"**You have submitted the below data.**">>),
                                        st_write_frame(input_df)>>
                                   \o pr.elems,
                         loaded |-> TRUE, ran |-> lm.ran, model |-> lm.model,
                         opened |-> lm.opened,
                         attempted |-> TRUE, invoked |-> pr.invoked,
                         row |-> preprocessed_data]]

---------------------------------------------------------------------------
(* The page as a state machine *)

PreIdle ==
    /\ arg_given = default_inputs
    /\ arg_frame = default_inputs
    /\ known_frame = differenced_features
    /\ ret_frame = NoFrame
    /\ called = FALSE

Init ==
    /\ file \in Artifacts
    /\ cache = EmptyCache
    /\ reads = 0
    /\ loads = 0
    /\ widgets = [s \in Sessions |-> default_inputs]
    /\ display = [s \in Sessions |-> <<>>]
    /\ run = [s \in Sessions |-> [pressed |-> FALSE] @@ IdleRun]
    /\ PreIdle

preVars == <<arg_given, arg_frame, known_frame, ret_frame, called>>

\* Streamlit reruns the script of session s from the top.  The disk holds
\* file when the run starts and f42 when it ends; it can only have changed
\* under a run that reads it a second time (between lines 37 and 42)
Rerun(s, w, pressed, f42) ==
    LET m == main(w, pressed, cache, file, f42)
    IN /\ m.out.opened \/ f42 = file
       /\ file' = f42
       /\ widgets' = [widgets EXCEPT ![s] = w]
       /\ cache' = m.cache
       /\ reads' = IF m.out.ran THEN reads + 1 ELSE reads
       /\ loads' = IF m.out.ran /\ m.out.model # None THEN loads + 1 ELSE loads
       /\ display' = [display EXCEPT ![s] = m.out.elems]
       /\ run' = [run EXCEPT ![s] = [pressed |-> pressed] @@ m.out]
       /\ UNCHANGED preVars

\* the user changes one widget: the script reruns, the button is not pressed
Change(s, label, v) ==
    /\ number_input(label, v)
    /\ v # widgets[s][label]
    /\ reads < MaxReads
    /\ \E f42 \in Artifacts : Rerun(s, [widgets[s] EXCEPT ![label] = v], FALSE, f42)

\* the user clicks Predict: the script reruns with the button pressed
Press(s) ==
    /\ reads < MaxReads
    /\ \E f42 \in Artifacts : Rerun(s, widgets[s], TRUE, f42)

\* the artifact on disk is replaced, removed or put in place
SetFile(f) ==
    /\ f # file
    /\ file' = f
    /\ UNCHANGED <<cache, reads, loads, widgets, display, run, preVars>>

Next ==
    \/ \E s \in Sessions : \E tv \in TypedValues : Change(s, tv[1], tv[2])
    \/ \E s \in Sessions : Press(s)
    \/ \E f \in Artifacts : SetFile(f)

Spec == Init /\ [][Next]_vars

---------------------------------------------------------------------------
(* preprocess called on its own, on frames main() need not produce *)

\* one-row frames with the 14 columns of input_df
TestFrames ==
    {[default_inputs EXCEPT !["fullyVaccinated"] = fv,
                            !["new_people_vaccinated_smoothed"] = np,
                            !["stringency_index"] = si,
                            !["totalTests"] = tt,
                            !["month"] = mo,
                            !["rfh"] = rf] :
        fv \in {9000000, 9327654, 9327700}, np \in {0, 95900, 100000},
        si \in {0, 1389, 5000}, tt \in {4000000, 4166833},
        mo \in {1, 12}, rf \in {0, 250}}

\* the frame main() passes, and one with a column main_dataframe lacks
TestKnown ==
    {differenced_features,
     [c \in (DOMAIN differenced_features) \cup {"total_cases"} |->
        IF c = "total_cases" THEN 1000 ELSE differenced_features[c]]}

InitPre ==
    /\ file = "absent"
    /\ cache = EmptyCache
    /\ reads = 0
    /\ loads = 0
    /\ widgets = [s \in Sessions |-> default_inputs]
    /\ display = [s \in Sessions |-> <<>>]
    /\ run = [s \in Sessions |-> [pressed |-> FALSE] @@ IdleRun]
    /\ arg_given \in TestFrames
    /\ arg_frame = arg_given
    /\ known_frame \in TestKnown
    /\ ret_frame = NoFrame
    /\ called = FALSE

pageVars == <<file, cache, reads, loads, widgets, display, run>>

\* preprocess(main_dataframe, dataframe_with_last_known_value) runs
CallPreprocess ==
    /\ ~called
    /\ LET p == preprocess(arg_frame, known_frame)
       IN /\ arg_frame' = p.frame
          /\ ret_frame' = p.ret
    /\ called' = TRUE
    /\ UNCHANGED <<arg_given, known_frame, pageVars>>

\* fresh frames are built for another call
NewFrames(df, known) ==
    /\ called
    /\ arg_given' = df
    /\ arg_frame' = df
    /\ known_frame' = known
    /\ ret_frame' = NoFrame
    /\ called' = FALSE
    /\ UNCHANGED pageVars

NextPre ==
    \/ CallPreprocess
    \/ \E df \in TestFrames : \E known \in TestKnown : NewFrames(df, known)

SpecPre == InitPre /\ [][NextPre]_vars

---------------------------------------------------------------------------
(* What a page shows *)

Shown(s) == {display[s][i] : i \in 1..Len(display[s])}
ElemsOf(d) == {d[i] : i \in 1..Len(d)}
Parts(e) == {e.text[i] : i \in 1..Len(e.text)}

IsMissingPathError(e) == e.kind = "error" /\ model_path \in Parts(e)
ShowsMissingPath(d) == \E e \in ElemsOf(d) : IsMissingPathError(e)
ShowsPrediction(d) == \E e \in ElemsOf(d) : e.kind = "success"
ShowsError(d) == \E e \in ElemsOf(d) : e.kind = "error"
ShowsTraceback(d) == \E e \in ElemsOf(d) : e.kind = "exception"

\* the messages load_model can write
LoaderErrors ==
    UNION {ElemsOf(load_model_body(f37, f42).elems) : f37, f42 \in Artifacts}

FourAtBaseline ==
    {"fullyVaccinated", "partiallyVaccinated", "totalTests", "totalVaccinations"}
TwoBelowBaseline == {"new_people_vaccinated_smoothed", "stringency_index"}

---------------------------------------------------------------------------
(* Claims *)

\* C1: the table shown under "You have submitted the below data" holds the
\* values the user entered, in all 14 columns.
C1_SubmittedTableIsInput ==
    \A s \in Sessions : \A e \in Shown(s) :
        e.kind = "dataframe" => e.frame = input_df_of(widgets[s])

\* C2: a trigger whose load_model() returned no model shows the loader's
\* message only and never reaches the predict call.
C2_NoInferenceWithoutModel ==
    \A s \in Sessions :
        (run[s].pressed /\ run[s].model = None) =>
            /\ ~run[s].attempted
            /\ \A e \in Shown(s) : e.kind = "error" => e \in LoaderErrors

\* C3: a failed load is never kept in the cache, so every trigger that ends
\* without a model has run the load itself, and a trigger made while a valid
\* artifact is on disk obtains a model.
C3_FailedLoadRetried ==
    /\ cache.stored => cache.value \in Models
    /\ \A s \in Sessions : (run[s].pressed /\ run[s].model = None) => run[s].ran

\* C4: on every column the input and the last-known frame share, preprocess
\* returns v - b when v >= b and 0 when v < b.
C4_Differencing ==
    called =>
        \A c \in (DOMAIN arg_given) \cap (DOMAIN known_frame) :
            ret_frame[c] = IF arg_given[c] >= known_frame[c]
                           THEN arg_given[c] - known_frame[c]
                           ELSE 0

C4_Witness ==
    /\ called
    /\ arg_given["fullyVaccinated"] = 9000000
    /\ ret_frame["fullyVaccinated"] = 0
    /\ arg_given["new_people_vaccinated_smoothed"] = 100000
    /\ ret_frame["new_people_vaccinated_smoothed"] = 4100
    /\ arg_given["stringency_index"] = 1389
    /\ ret_frame["stringency_index"] = 0

\* C5 as claimed: whenever the model file is absent (when the trigger starts
\* or when it ends), the trigger shows an error naming the path and no
\* prediction.
C5_MissingPathAlwaysReported ==
    [][\A s \in Sessions :
          (Press(s) /\ (file = "absent" \/ file' = "absent")) =>
              (ShowsMissingPath(display'[s]) /\ ~ShowsPrediction(display'[s]))]_vars

\* C5 amended: whenever the model file is absent and load_model has cached
\* neither a model nor a failure to deserialize a file that was there, a
\* trigger shows an error naming the path and no prediction.
C5_MissingPathReported ==
    [][\A s \in Sessions :
          (/\ Press(s)
           /\ file = "absent" \/ file' = "absent"
           /\ cache.stored => (cache.value = None /\ ShowsMissingPath(cache.elems)))
          => (ShowsMissingPath(display'[s]) /\ ~ShowsPrediction(display'[s]))]_vars

C5_Witness ==
    /\ file = "absent"
    /\ reads = 1
    /\ \A s \in Sessions :
          run[s].pressed /\ ShowsMissingPath(display[s]) /\ ~ShowsPrediction(display[s])
    /\ \E s \in Sessions : ~run[s].ran

\* C6: after every trigger, whatever failed in it, the page shows no
\* uncaught exception and shows a message (an error whenever no model was
\* returned or no prediction was made); and a trigger made while an earlier
\* outcome is on the page runs the sequence again from the top: load_model
\* is called, the table is written and the predict call is reached.
C6_FailuresRecovered ==
    [][\A s \in Sessions :
          /\ run'[s].pressed =>
                /\ ~ShowsTraceback(display'[s])
                /\ ShowsPrediction(display'[s]) \/ ShowsError(display'[s])
                /\ (run'[s].model = None \/ ~ShowsPrediction(display'[s]))
                      => ShowsError(display'[s])
          /\ (run[s].pressed /\ Press(s)) =>
                /\ run'[s].loaded
                /\ run'[s].attempted
                /\ \E e \in ElemsOf(display'[s]) : e.kind = "dataframe"]_vars

C6_Witness ==
    \E s \in Sessions :
        /\ run[s].pressed
        /\ run[s].model = "xgb_raises"
        /\ run[s].invoked
        /\ ShowsError(display[s])
        /\ ~ShowsPrediction(display[s])
        /\ ~ShowsTraceback(display[s])

\* C7: once a model has been loaded it stays the cached handle: no step
\* runs the body of load_model again or replaces the handle, every trigger
\* gets that handle, and joblib.load has returned a model at most once.
C7_LoadedOnce ==
    [][/\ loads' <= 1
       /\ (cache.stored /\ cache.value \in Models) =>
             /\ cache' = cache
             /\ reads' = reads
             /\ loads' = loads
             /\ \A s \in Sessions : Press(s) => run'[s].model = cache.value]_vars

C7_Witness ==
    /\ cache.stored
    /\ cache.value = "xgb_ok"
    /\ file # "xgb_ok"
    /\ loads = 1
    /\ reads = 1
    /\ \A s \in Sessions : run[s].pressed /\ run[s].model = "xgb_ok"
    /\ \E s \in Sessions : ~run[s].ran /\ ShowsPrediction(display[s])

\* C8: preprocess returns a frame with exactly the 14 columns of its input,
\* and every column outside the 6 last-known columns holds the input value.
C8_FrameKept ==
    called =>
        /\ DOMAIN ret_frame = DOMAIN arg_given
        /\ Cardinality(DOMAIN ret_frame) = Cardinality(input_columns)
        /\ \A c \in (DOMAIN arg_given) \ (DOMAIN differenced_features) :
              ret_frame[c] = arg_given[c]

C8_Witness ==
    /\ called
    /\ "total_cases" \in DOMAIN known_frame
    /\ arg_given["fullyVaccinated"] = 9000000
    /\ ret_frame["fullyVaccinated"] = 0
    /\ arg_given["month"] = 12
    /\ ret_frame["month"] = 12
    /\ arg_given["rfh"] = 250
    /\ ret_frame["rfh"] = 250

\* C9: a run caused by a change of input alone calls neither load_model nor
\* predict and shows no result and no error.
C9_OnlyOnPress ==
    \A s \in Sessions :
        ~run[s].pressed =>
            /\ ~run[s].loaded
            /\ ~run[s].ran
            /\ ~run[s].attempted
            /\ ~run[s].invoked
            /\ display[s] = <<>>

C9_Witness ==
    \E s \in Sessions :
        /\ ~run[s].pressed
        /\ widgets[s] # default_inputs
        /\ display[s] = <<>>
        /\ cache.stored
        /\ reads = 1
        /\ \E t \in Sessions : run[t].pressed /\ display[t] # <<>>

\* C10: for the inputs the widgets admit, every cell of the row passed to
\* predict is >= 0; the four columns whose minimum is the last-known value
\* hold exactly v - b; the two whose minimum is 0 hold 0 below the last-known
\* value.
C10_RowNonNegative ==
    \A s \in Sessions :
        run[s].pressed =>
            /\ DOMAIN run[s].row = input_columns
            /\ \A c \in input_columns : run[s].row[c] >= 0
            /\ \A c \in FourAtBaseline :
                  /\ widgets[s][c] >= differenced_features[c]
                  /\ run[s].row[c] = widgets[s][c] - differenced_features[c]
            /\ \A c \in TwoBelowBaseline :
                  widgets[s][c] < differenced_features[c] => run[s].row[c] = 0

C10_Witness ==
    \E s \in Sessions :
        /\ run[s].pressed
        /\ widgets[s]["fullyVaccinated"] = 9327700
        /\ run[s].row["fullyVaccinated"] = 46
        /\ widgets[s]["new_people_vaccinated_smoothed"] = 0
        /\ run[s].row["new_people_vaccinated_smoothed"] = 0
        /\ widgets[s]["stringency_index"] = 0
        /\ run[s].row["stringency_index"] = 0

====
